---- MODULE Spec2Model ----
(***************************************************************************)
(* GhostKeys: ABNT2 dead-key Mapper, Windows low-level keyboard hook       *)
(* interceptor and the shared Mode Gate.                                   *)
(*                                                                         *)
(* Characters are Unicode code points, Option<T> is a sequence of length   *)
(* 0 (None) or 1 (Some), enum values are tuples <<tag, payload...>>.       *)
(***************************************************************************)
EXTENDS Integers, Sequences, FiniteSets, TLC

VARIABLES
    running,            \* WindowsInterceptor.running
    MAPPER,             \* thread_local MAPPER: one Option<Mapper> per thread
    HOOK_HANDLE,        \* thread_local HOOK_HANDLE: one Option<HHOOK> per thread
    GLOBAL_HOOK_HANDLE, \* process-wide Mutex<Option<isize>>
    GLOBAL_PAUSED,      \* process-wide AtomicBool read by the callback
    mode,               \* AppState.mode behind SharedState.inner
    exit_flag,          \* SharedState.exit_flag
    is_active,          \* main's is_active AtomicBool (tray menu)
    osHooks,            \* hooks the OS currently has registered
    nextHandle,         \* next handle SetWindowsHookExW hands out
    unhookCalls,        \* per handle: number of UnhookWindowsHookEx calls made on it
    inputQueue,         \* events SendInput has inserted, not yet dispatched
    now,                \* monotonic clock (Instant::now), in ticks
    stopPc,             \* Some(thread) while that thread is inside stop()
    stale,              \* threads whose Mapper holds an accent entered before the last pause
    gateLock,           \* SharedState.inner: Some(thread) while that thread holds the Mutex
    gatePc,             \* per thread: the SharedState method it is inside, and its locals
    gateHist,           \* what the completed Mode Gate writes amount to (history)
    last                \* the most recent operation, its inputs and its outcome

vars == <<running, MAPPER, HOOK_HANDLE, GLOBAL_HOOK_HANDLE, GLOBAL_PAUSED, mode,
          exit_flag, is_active, osHooks, nextHandle, unhookCalls, inputQueue, now,
          stopPc, stale, gateLock, gatePc, gateHist, last>>

\* the variables only the Mode Gate's methods touch
gateVars == <<gateLock, gatePc, gateHist>>

(***************************************************************************)
(* Bounds of the model                                                     *)
(***************************************************************************)
MaxInstalls == 2
MaxQueue == 4
MaxNow == 3
TickMs == 250
MaxToggles == 3

\* main.rs has exactly two threads: the tray/UI thread and the spawned hook thread
Threads == {"ui", "hook"}

None == <<>>
Some(x) == <<x>>
IsSome(o) == Len(o) = 1
Unwrap(o) == o[1]

(***************************************************************************)
(* mapper.rs                                                               *)
(***************************************************************************)
ACCENT_TIMEOUT == 500

AccentType == {"Tilde", "Acute", "Grave", "Circumflex"}

Idle == <<"Idle">>
PendingAccent(accent) == <<"PendingAccent", accent>>
IsPending(state) == state[1] = "PendingAccent"

Pass == <<"Pass">>
Suppress == <<"Suppress">>
Replace(c) == <<"Replace", c>>
ReplaceMultiple(cs) == <<"ReplaceMultiple", cs>>

\* AccentType::to_char
to_char(accent) ==
    CASE accent = "Tilde" -> 126
      [] accent = "Acute" -> 180
      [] accent = "Grave" -> 96
      [] accent = "Circumflex" -> 94

\* char::to_ascii_uppercase / to_ascii_lowercase
to_ascii_uppercase(c) == IF c >= 97 /\ c <= 122 THEN c - 32 ELSE c
to_ascii_lowercase(c) == IF c >= 65 /\ c <= 90 THEN c + 32 ELSE c

\* a position map whose Slash row has its two characters exchanged
position_map_slash_exchanged(key, shift) ==
    CASE key = <<"Semicolon">>    -> Some(IF shift THEN 199 ELSE 231)
      [] key = <<"RightBracket">> -> Some(IF shift THEN 123 ELSE 91)
      [] key = <<"Backslash">>    -> Some(IF shift THEN 125 ELSE 93)
      [] key = <<"Slash">>        -> Some(IF shift THEN 59 ELSE 58)
      [] OTHER -> None

\* Mapper::init_position_map, as the lookup position_map.get(&(key, shift))
position_map(key, shift) ==
    CASE key = <<"Semicolon">>    -> Some(IF shift THEN 199 ELSE 231)
      [] key = <<"RightBracket">> -> Some(IF shift THEN 123 ELSE 91)
      [] key = <<"Backslash">>    -> Some(IF shift THEN 125 ELSE 93)
      [] key = <<"Slash">>        -> Some(IF shift THEN 58 ELSE 59)
      [] OTHER -> None

\* Mapper::init_accent_combinations, as the lookup accent_combinations.get(&(accent, c))
accent_combinations(accent, c) ==
    CASE accent = "Tilde" /\ c = 97  -> Some(227)
      [] accent = "Tilde" /\ c = 65  -> Some(195)
      [] accent = "Tilde" /\ c = 111 -> Some(245)
      [] accent = "Tilde" /\ c = 79  -> Some(213)
      [] accent = "Tilde" /\ c = 110 -> Some(241)
      [] accent = "Tilde" /\ c = 78  -> Some(209)
      [] accent = "Acute" /\ c = 97  -> Some(225)
      [] accent = "Acute" /\ c = 65  -> Some(193)
      [] accent = "Acute" /\ c = 101 -> Some(233)
      [] accent = "Acute" /\ c = 69  -> Some(201)
      [] accent = "Acute" /\ c = 105 -> Some(237)
      [] accent = "Acute" /\ c = 73  -> Some(205)
      [] accent = "Acute" /\ c = 111 -> Some(243)
      [] accent = "Acute" /\ c = 79  -> Some(211)
      [] accent = "Acute" /\ c = 117 -> Some(250)
      [] accent = "Acute" /\ c = 85  -> Some(218)
      [] accent = "Grave" /\ c = 97  -> Some(224)
      [] accent = "Grave" /\ c = 65  -> Some(192)
      [] accent = "Circumflex" /\ c = 97  -> Some(226)
      [] accent = "Circumflex" /\ c = 65  -> Some(194)
      [] accent = "Circumflex" /\ c = 101 -> Some(234)
      [] accent = "Circumflex" /\ c = 69  -> Some(202)
      [] accent = "Circumflex" /\ c = 111 -> Some(244)
      [] accent = "Circumflex" /\ c = 79  -> Some(212)
      [] OTHER -> None

\* Mapper::new
NewMapper == [state |-> Idle, last_accent_time |-> None]

\* a dead-key table that ignores shift on the Apostrophe key
get_dead_key_accent_unshifted(key, shift) ==
    CASE key = <<"Apostrophe">>  -> Some("Tilde")
      [] key = <<"LeftBracket">> -> Some(IF shift THEN "Grave" ELSE "Acute")
      [] OTHER -> None

\* Mapper::get_dead_key_accent
get_dead_key_accent(key, shift) ==
    CASE key = <<"Apostrophe">>  -> Some(IF shift THEN "Circumflex" ELSE "Tilde")
      [] key = <<"LeftBracket">> -> Some(IF shift THEN "Grave" ELSE "Acute")
      [] OTHER -> None

\* an Idle step that stamps the time on keys it passes through
process_idle_stamps(m, key, shift, t) ==
    IF IsSome(get_dead_key_accent(key, shift))
    THEN [mapper |-> [state |-> PendingAccent(Unwrap(get_dead_key_accent(key, shift))),
                      last_accent_time |-> Some(t)],
          action |-> Suppress]
    ELSE IF IsSome(position_map(key, shift))
    THEN [mapper |-> m, action |-> Replace(Unwrap(position_map(key, shift)))]
    ELSE [mapper |-> [m EXCEPT !.last_accent_time = Some(t)], action |-> Pass]

\* Mapper::process_idle; the result is the Mapper afterwards and the KeyAction returned
process_idle(m, key, shift, t) ==
    IF IsSome(get_dead_key_accent(key, shift))
    THEN [mapper |-> [state |-> PendingAccent(Unwrap(get_dead_key_accent(key, shift))),
                      last_accent_time |-> Some(t)],
          action |-> Suppress]
    ELSE IF IsSome(position_map(key, shift))
    THEN [mapper |-> m, action |-> Replace(Unwrap(position_map(key, shift)))]
    ELSE [mapper |-> m, action |-> Pass]

\* a pending-accent step that looks the character up as passed, ignoring shift
process_pending_accent_unnormalised(m, accent, key, shift) ==
    LET cleared == [state |-> Idle, last_accent_time |-> None]
        char_key == key[2]
    IN  IF key = <<"Space">>
        THEN [mapper |-> cleared, action |-> Replace(to_char(accent))]
        ELSE IF key[1] # "Char"
        THEN [mapper |-> cleared, action |-> Replace(to_char(accent))]
        ELSE IF IsSome(accent_combinations(accent, char_key))
        THEN [mapper |-> cleared,
              action |-> Replace(Unwrap(accent_combinations(accent, char_key)))]
        ELSE [mapper |-> cleared,
              action |-> ReplaceMultiple(<<to_char(accent), char_key>>)]

\* a pending-accent step whose fallback puts the character before the glyph
process_pending_accent_char_first(m, accent, key, shift) ==
    LET cleared == [state |-> Idle, last_accent_time |-> None]
        char_key == IF shift THEN to_ascii_uppercase(key[2]) ELSE to_ascii_lowercase(key[2])
    IN  IF key = <<"Space">>
        THEN [mapper |-> cleared, action |-> Replace(to_char(accent))]
        ELSE IF key[1] # "Char"
        THEN [mapper |-> cleared, action |-> Replace(to_char(accent))]
        ELSE IF IsSome(accent_combinations(accent, char_key))
        THEN [mapper |-> cleared,
              action |-> Replace(Unwrap(accent_combinations(accent, char_key)))]
        ELSE [mapper |-> cleared,
              action |-> ReplaceMultiple(<<char_key, to_char(accent)>>)]

\* a pending-accent step that lets a second dead key take the pending accent over
process_pending_accent_chained(m, accent, key, shift) ==
    LET cleared == [state |-> Idle, last_accent_time |-> None]
        char_key == IF shift THEN to_ascii_uppercase(key[2]) ELSE to_ascii_lowercase(key[2])
    IN  IF key = <<"Space">>
        THEN [mapper |-> cleared, action |-> Replace(to_char(accent))]
        ELSE IF IsSome(get_dead_key_accent(key, shift))
        THEN [mapper |-> [m EXCEPT !.state =
                              PendingAccent(Unwrap(get_dead_key_accent(key, shift)))],
              action |-> Replace(to_char(accent))]
        ELSE IF key[1] # "Char"
        THEN [mapper |-> cleared, action |-> Replace(to_char(accent))]
        ELSE IF IsSome(accent_combinations(accent, char_key))
        THEN [mapper |-> cleared,
              action |-> Replace(Unwrap(accent_combinations(accent, char_key)))]
        ELSE [mapper |-> cleared,
              action |-> ReplaceMultiple(<<to_char(accent), char_key>>)]

\* a pending-accent step that gives the accent up on a key that is not a character
process_pending_accent_silent(m, accent, key, shift) ==
    LET cleared == [state |-> Idle, last_accent_time |-> None]
        char_key == IF shift THEN to_ascii_uppercase(key[2]) ELSE to_ascii_lowercase(key[2])
    IN  IF key = <<"Space">>
        THEN [mapper |-> cleared, action |-> Replace(to_char(accent))]
        ELSE IF key[1] # "Char"
        THEN [mapper |-> cleared, action |-> Pass]
        ELSE IF IsSome(accent_combinations(accent, char_key))
        THEN [mapper |-> cleared,
              action |-> Replace(Unwrap(accent_combinations(accent, char_key)))]
        ELSE [mapper |-> cleared,
              action |-> ReplaceMultiple(<<to_char(accent), char_key>>)]

\* Mapper::process_pending_accent
process_pending_accent(m, accent, key, shift) ==
    LET cleared == [state |-> Idle, last_accent_time |-> None]
        char_key == IF shift THEN to_ascii_uppercase(key[2]) ELSE to_ascii_lowercase(key[2])
    IN  IF key = <<"Space">>
        THEN [mapper |-> cleared, action |-> Replace(to_char(accent))]
        ELSE IF key[1] # "Char"
        THEN [mapper |-> cleared, action |-> Replace(to_char(accent))]
        ELSE IF IsSome(accent_combinations(accent, char_key))
        THEN [mapper |-> cleared,
              action |-> Replace(Unwrap(accent_combinations(accent, char_key)))]
        ELSE [mapper |-> cleared,
              action |-> ReplaceMultiple(<<to_char(accent), char_key>>)]

\* a process_key that treats a pending accent older than the timeout as expired
process_key_expiring(m, key, shift, t) ==
    IF /\ IsPending(m.state) /\ IsSome(m.last_accent_time)
       /\ (t - Unwrap(m.last_accent_time)) * TickMs >= ACCENT_TIMEOUT
    THEN process_idle([state |-> Idle, last_accent_time |-> None], key, shift, t)
    ELSE IF IsPending(m.state)
    THEN process_pending_accent(m, m.state[2], key, shift)
    ELSE process_idle(m, key, shift, t)

\* Mapper::process_key
process_key(m, key, shift, t) ==
    IF IsPending(m.state)
    THEN process_pending_accent(m, m.state[2], key, shift)
    ELSE process_idle(m, key, shift, t)

\* Instant::elapsed, in milliseconds
elapsed(time, t) == (t - time) * TickMs

\* a check_timeout that returns the glyph but forgets to clear the pending accent
check_timeout_keeps_pending(m, t) ==
    IF IsPending(m.state) /\ IsSome(m.last_accent_time)
       /\ elapsed(Unwrap(m.last_accent_time), t) >= ACCENT_TIMEOUT
    THEN [mapper |-> m, action |-> Some(Replace(to_char(m.state[2])))]
    ELSE [mapper |-> m, action |-> None]

\* a check_timeout that does not look at the time elapsed
check_timeout_eager(m, t) ==
    IF IsPending(m.state) /\ IsSome(m.last_accent_time)
    THEN [mapper |-> [state |-> Idle, last_accent_time |-> None],
          action |-> Some(Replace(to_char(m.state[2])))]
    ELSE [mapper |-> m, action |-> None]

\* a check_timeout that returns to Idle but keeps the timestamp
check_timeout_keeps_time(m, t) ==
    IF IsPending(m.state) /\ IsSome(m.last_accent_time)
       /\ elapsed(Unwrap(m.last_accent_time), t) >= ACCENT_TIMEOUT
    THEN [mapper |-> [m EXCEPT !.state = Idle],
          action |-> Some(Replace(to_char(m.state[2])))]
    ELSE [mapper |-> m, action |-> None]

\* Mapper::check_timeout; action is the Option<KeyAction> returned
check_timeout(m, t) ==
    IF IsPending(m.state) /\ IsSome(m.last_accent_time)
       /\ elapsed(Unwrap(m.last_accent_time), t) >= ACCENT_TIMEOUT
    THEN [mapper |-> [state |-> Idle, last_accent_time |-> None],
          action |-> Some(Replace(to_char(m.state[2])))]
    ELSE [mapper |-> m, action |-> None]

\* a reset that leaves the pending timestamp in place
reset_keeps_time(m) == [m EXCEPT !.state = Idle]

\* Mapper::reset
reset(m) == [state |-> Idle, last_accent_time |-> None]

(***************************************************************************)
(* state.rs: SharedState (the Mode Gate)                                   *)
(***************************************************************************)
OperationMode == {"Active", "Passthrough"}

\* a toggle that only ever switches interception off
toggle_mode_sticky(m) == "Passthrough"

\* SharedState::toggle_mode: the mode stored (and returned) for the mode found
toggle_mode(m) == IF m = "Active" THEN "Passthrough" ELSE "Active"

\* a thread that is inside no method of SharedState
GateOutside == [at |-> "outside"]

\* no write to the Mode Gate has completed yet: toggles counts the toggle_mode calls
\* completed while no set_mode has been made, settled is the argument of a set_mode
\* that completed with no set_mode or toggle_mode begun since, and its thread
NewGateHist == [toggles |-> Some(0), settled |-> None]

\* a lock that lets every caller in
lock_always_acquirable(owner) == TRUE

\* Mutex::lock on inner: the calling thread goes on only when no thread holds it
lock_acquirable(owner) == owner = None

\* a signal_exit that flips the flag
signal_exit_flips(flag) == ~flag

\* signal_exit: exit_flag.store(true)
signal_exit(flag) == TRUE

\* should_exit: exit_flag.load()
should_exit(flag) == flag

\* a get_mode that answers with the default mode
get_mode_default(m) == "Active"

\* get_mode: state.mode under the lock
get_mode(m) == m

(***************************************************************************)
(* platform/windows.rs                                                     *)
(***************************************************************************)
\* Messages and flag bits of KBDLLHOOKSTRUCT the callback reads
WM_KEYDOWN == 256
WM_KEYUP == 257
WM_SYSKEYDOWN == 260
LLKHF_INJECTED == 16
LLKHF_UP == 128
\* the virtual key the hook sees for a KEYEVENTF_UNICODE input (wVk = 0)
VK_PACKET == 231

\* a translation that takes every other key for a character key
vk_to_virtual_key_wide(vk) ==
    CASE vk = 186 -> <<"Semicolon">>
      [] vk = 222 -> <<"Apostrophe">>
      [] vk = 219 -> <<"LeftBracket">>
      [] vk = 221 -> <<"RightBracket">>
      [] vk = 220 -> <<"Backslash">>
      [] vk = 191 -> <<"Slash">>
      [] vk = 32  -> <<"Space">>
      [] OTHER -> <<"Char", vk>>

\* vk_to_virtual_key
vk_to_virtual_key(vk) ==
    CASE vk = 186 -> <<"Semicolon">>
      [] vk = 222 -> <<"Apostrophe">>
      [] vk = 219 -> <<"LeftBracket">>
      [] vk = 221 -> <<"RightBracket">>
      [] vk = 220 -> <<"Backslash">>
      [] vk = 191 -> <<"Slash">>
      [] vk = 32  -> <<"Space">>
      [] vk >= 65 /\ vk <= 90 -> <<"Char", vk>>
      [] OTHER -> <<"Other">>

is_injected_unchecked(e) == FALSE

\* (kb_struct.flags.0 & 0x10) != 0
is_injected(e) == (e.flags \div LLKHF_INJECTED) % 2 = 1

\* a test that takes every message for a key-down
is_key_down_always(e) == TRUE

\* msg == WM_KEYDOWN || msg == WM_SYSKEYDOWN
is_key_down(e) == e.msg = WM_KEYDOWN \/ e.msg = WM_SYSKEYDOWN

\* the early return on GLOBAL_PAUSED.load()
paused_gate(paused) == paused

\* a match that hands the characters of ReplaceMultiple over last first
chars_of_reversed(action) ==
    CASE action[1] = "Replace" -> <<action[2]>>
      [] action[1] = "ReplaceMultiple" ->
            [i \in 1..Len(action[2]) |-> action[2][Len(action[2]) + 1 - i]]
      [] OTHER -> <<>>

\* the characters handed to inject_char / inject_chars for a KeyAction
chars_of(action) ==
    CASE action[1] = "Replace" -> <<action[2]>>
      [] action[1] = "ReplaceMultiple" -> action[2]
      [] OTHER -> <<>>

\* return CallNextHookEx(None, code, wparam, lparam)
CallNext(mapperOpt) ==
    [forwarded |-> TRUE, mapper |-> mapperOpt, action |-> None,
     called |-> FALSE, shift_read |-> FALSE, chars |-> <<>>]

\* a callback that swallows the key when the thread has no Mapper
ApplyMapper_swallows(mapperOpt, key, shift, t) ==
    IF IsSome(mapperOpt)
    THEN LET r == process_key(Unwrap(mapperOpt), key, shift, t)
         IN  [forwarded |-> r.action = Pass, mapper |-> Some(r.mapper),
              action |-> Some(r.action), called |-> TRUE, shift_read |-> TRUE,
              chars |-> chars_of(r.action)]
    ELSE [forwarded |-> FALSE, mapper |-> mapperOpt, action |-> Some(Suppress),
          called |-> FALSE, shift_read |-> TRUE, chars |-> <<>>]

\* MAPPER.with(...) and the match on the action, for an event that reached the Mapper
ApplyMapper(mapperOpt, key, shift, t) ==
    IF IsSome(mapperOpt)
    THEN LET r == process_key(Unwrap(mapperOpt), key, shift, t)
         IN  [forwarded |-> r.action = Pass, mapper |-> Some(r.mapper),
              action |-> Some(r.action), called |-> TRUE, shift_read |-> TRUE,
              chars |-> chars_of(r.action)]
    ELSE [forwarded |-> TRUE, mapper |-> mapperOpt, action |-> Some(Pass),
          called |-> FALSE, shift_read |-> TRUE, chars |-> <<>>]

\* low_level_keyboard_proc: the decision for one event on one thread
low_level_keyboard_proc(paused, mapperOpt, e, shift, t) ==
    IF e.code < 0 THEN CallNext(mapperOpt)
    ELSE IF paused_gate(paused) THEN CallNext(mapperOpt)
    ELSE IF is_injected(e) THEN CallNext(mapperOpt)
    ELSE IF ~is_key_down(e) THEN CallNext(mapperOpt)
    ELSE IF vk_to_virtual_key(e.vkCode) = <<"Other">> THEN CallNext(mapperOpt)
    ELSE ApplyMapper(mapperOpt, vk_to_virtual_key(e.vkCode), shift, t)

\* an inject_char that replays the semicolon key as if the keyboard had sent it
inject_char_as_key(queue, c, ok) ==
    IF ok
    THEN queue \o <<[code |-> 0, msg |-> WM_KEYDOWN, vkCode |-> 186,
                     flags |-> 0, scan |-> c],
                    [code |-> 0, msg |-> WM_KEYUP, vkCode |-> 186,
                     flags |-> LLKHF_UP, scan |-> c]>>
    ELSE queue

\* an inject_char whose events come back without the injected flag
inject_char_unmarked(queue, c, ok) ==
    IF ok
    THEN queue \o <<[code |-> 0, msg |-> WM_KEYDOWN, vkCode |-> VK_PACKET,
                     flags |-> 0, scan |-> c],
                    [code |-> 0, msg |-> WM_KEYUP, vkCode |-> VK_PACKET,
                     flags |-> LLKHF_UP, scan |-> c]>>
    ELSE queue

\* inject_char: SendInput of a key-down and a key-up carrying c; ok is whether the
\* OS inserted them (the return value of SendInput is not read)
inject_char(queue, c, ok) ==
    IF ok
    THEN queue \o <<[code |-> 0, msg |-> WM_KEYDOWN, vkCode |-> VK_PACKET,
                     flags |-> LLKHF_INJECTED, scan |-> c],
                    [code |-> 0, msg |-> WM_KEYUP, vkCode |-> VK_PACKET,
                     flags |-> LLKHF_INJECTED + LLKHF_UP, scan |-> c]>>
    ELSE queue

\* inject_chars: inject_char for each character in order
RECURSIVE inject_chars(_, _, _)
inject_chars(queue, cs, oks) ==
    IF cs = <<>> THEN queue
    ELSE inject_chars(inject_char(queue, Head(cs), Head(oks)), Tail(cs), Tail(oks))

\* UnhookWindowsHookEx(h): the registered hooks afterwards; osOk is whether the OS
\* agrees to unregister a hook it has
Unhook(hooks, h, osOk) == IF osOk THEN hooks \ {h} ELSE hooks
UnhookRefused(hooks, h, osOk) == ~(h \in hooks /\ osOk)

start_rejects_never(r) == FALSE

\* if self.running.load() { return Err(HookInstallError("already running")) }
start_rejects(r) == r

stop_returns_early_never(r) == FALSE

\* if !self.running.load() { return Ok(()) }
stop_returns_early(r) == ~r

\* the result stop() returns after releasing, given whether the OS refused
stop_result(refused) == "Ok"

running_after_stop_unless_refused(refused) == refused

\* self.running.store(false) at the end of stop, whatever the unhook returned
running_after_stop(refused) == FALSE

\* WindowsInterceptor::is_running
is_running == running

\* what stop() leaves in GLOBAL_HOOK_HANDLE (*global = None)
clear_global(g) == None

(***************************************************************************)
(* The environment's inputs                                                *)
(***************************************************************************)
\* events another source can put in front of the hook: key-down of ; ' A X Enter,
\* key-up, events some process injected (LLKHF_INJECTED), a system key-down and a
\* call with code < 0
KeyDown(vk) == [code |-> 0, msg |-> WM_KEYDOWN, vkCode |-> vk, flags |-> 0, scan |-> 0]
SampleEvents ==
    {KeyDown(vk) : vk \in {186, 222, 65, 88, 13}}
    \cup {[KeyDown(vk) EXCEPT !.msg = WM_KEYUP, !.flags = LLKHF_UP] : vk \in {222, 65}}
    \cup {[KeyDown(vk) EXCEPT !.flags = LLKHF_INJECTED] : vk \in {222, 65}}
    \cup {[KeyDown(222) EXCEPT !.msg = WM_SYSKEYDOWN], [KeyDown(222) EXCEPT !.code = 0 - 1]}

\* the Mappers that hold a pending accent
PendingThreads(mappers) ==
    {t \in Threads : IsSome(mappers[t]) /\ IsPending(Unwrap(mappers[t]).state)}

\* stale after a step that leaves the Mappers as newMappers and the mode as newMode
StaleAfter(newMappers, newMode) ==
    IF mode = "Active" /\ newMode = "Passthrough"
    THEN PendingThreads(newMappers)
    ELSE {t \in stale : newMappers[t] = MAPPER[t]}

Init ==
    /\ running = FALSE
    /\ MAPPER = [t \in Threads |-> None]
    /\ HOOK_HANDLE = [t \in Threads |-> None]
    /\ GLOBAL_HOOK_HANDLE = None
    /\ GLOBAL_PAUSED = FALSE
    /\ mode = "Active"
    /\ exit_flag = FALSE
    /\ is_active = TRUE
    /\ osHooks = {}
    /\ nextHandle = 1
    /\ unhookCalls = [i \in 1..MaxInstalls |-> 0]
    /\ inputQueue = <<>>
    /\ now = 0
    /\ stopPc = None
    /\ stale = {}
    /\ gateLock = None
    /\ gatePc = [t \in Threads |-> GateOutside]
    /\ gateHist = NewGateHist
    /\ last = [op |-> "init"]

(***************************************************************************)
(* WindowsInterceptor lifecycle                                            *)
(***************************************************************************)
\* start, when the interceptor is already running: the early Err
StartRejected(t, osOk) ==
    /\ last' = [op |-> "start", thread |-> t, result |-> "HookInstallError",
                was_running |-> running, os_ok |-> osOk, installed |-> None]
    /\ UNCHANGED <<running, MAPPER, HOOK_HANDLE, GLOBAL_HOOK_HANDLE, osHooks,
                   nextHandle, stale>>

StartInstallFailedMarkedRunning(t) ==
    /\ MAPPER' = [MAPPER EXCEPT ![t] = Some(NewMapper)]
    /\ stale' = StaleAfter(MAPPER', mode)
    /\ running' = TRUE
    /\ last' = [op |-> "start", thread |-> t, result |-> "HookInstallError",
                was_running |-> running, os_ok |-> FALSE, installed |-> None]
    /\ UNCHANGED <<HOOK_HANDLE, GLOBAL_HOOK_HANDLE, osHooks, nextHandle>>

\* start, when SetWindowsHookExW fails: the Mapper is already initialised, the
\* `?` returns before any handle or the running flag is stored
StartInstallFailed(t) ==
    /\ MAPPER' = [MAPPER EXCEPT ![t] = Some(NewMapper)]
    /\ stale' = StaleAfter(MAPPER', mode)
    /\ last' = [op |-> "start", thread |-> t, result |-> "HookInstallError",
                was_running |-> running, os_ok |-> FALSE, installed |-> None]
    /\ UNCHANGED <<running, HOOK_HANDLE, GLOBAL_HOOK_HANDLE, osHooks, nextHandle>>

\* start, when SetWindowsHookExW returns a handle
StartInstalled(t) ==
    LET h == [id |-> nextHandle, thread |-> t]
    IN  /\ nextHandle <= MaxInstalls
        /\ MAPPER' = [MAPPER EXCEPT ![t] = Some(NewMapper)]
        /\ stale' = StaleAfter(MAPPER', mode)
        /\ osHooks' = osHooks \cup {h}
        /\ nextHandle' = nextHandle + 1
        /\ HOOK_HANDLE' = [HOOK_HANDLE EXCEPT ![t] = Some(h)]
        /\ GLOBAL_HOOK_HANDLE' = Some(h)
        /\ running' = TRUE
        /\ last' = [op |-> "start", thread |-> t, result |-> "Ok",
                    was_running |-> running, os_ok |-> TRUE, installed |-> Some(h)]

\* WindowsInterceptor::start on thread t; osOk is whether SetWindowsHookExW succeeds
Start(t, osOk) ==
    /\ stopPc = None
    /\ IF start_rejects(running) THEN StartRejected(t, osOk)
       ELSE IF osOk THEN StartInstalled(t)
       ELSE StartInstallFailed(t)
    /\ UNCHANGED gateVars /\ UNCHANGED <<GLOBAL_PAUSED, mode, exit_flag, is_active, unhookCalls, inputQueue,
                   now, stopPc>>

\* WindowsInterceptor::stop on thread t, up to and including the unhook of the
\* thread-local handle (or the early return when not running)
StopUnhook(t, osOk) ==
    /\ stopPc = None
    /\ IF stop_returns_early(running)
       THEN /\ last' = [op |-> "stop", thread |-> t, result |-> "Ok",
                        was_running |-> running, refused |-> FALSE, unhooked |-> None]
            /\ UNCHANGED <<HOOK_HANDLE, osHooks, unhookCalls, stopPc>>
       ELSE IF IsSome(HOOK_HANDLE[t])
       THEN LET h == Unwrap(HOOK_HANDLE[t])
            IN  /\ HOOK_HANDLE' = [HOOK_HANDLE EXCEPT ![t] = None]
                /\ osHooks' = Unhook(osHooks, h, osOk)
                /\ unhookCalls' = [unhookCalls EXCEPT ![h.id] = @ + 1]
                /\ stopPc' = Some([thread |-> t, unhooked |-> Some(h),
                                   refused |-> UnhookRefused(osHooks, h, osOk)])
                /\ last' = [op |-> "stop_unhook", thread |-> t]
       ELSE /\ stopPc' = Some([thread |-> t, unhooked |-> None, refused |-> FALSE])
            /\ last' = [op |-> "stop_unhook", thread |-> t]
            /\ UNCHANGED <<HOOK_HANDLE, osHooks, unhookCalls>>
    /\ UNCHANGED gateVars /\ UNCHANGED <<running, MAPPER, GLOBAL_HOOK_HANDLE, GLOBAL_PAUSED, mode, exit_flag,
                   is_active, nextHandle, inputQueue, now, stale>>

\* the rest of stop: clear the global handle, clear the Mapper, running = false
StopFinish ==
    /\ IsSome(stopPc)
    /\ LET s == Unwrap(stopPc)
       IN  /\ GLOBAL_HOOK_HANDLE' = clear_global(GLOBAL_HOOK_HANDLE)
           /\ MAPPER' = [MAPPER EXCEPT ![s.thread] = None]
           /\ running' = running_after_stop(s.refused)
           /\ last' = [op |-> "stop", thread |-> s.thread,
                       result |-> stop_result(s.refused), was_running |-> TRUE,
                       refused |-> s.refused, unhooked |-> s.unhooked]
    /\ stopPc' = None
    /\ stale' = StaleAfter(MAPPER', mode)
    /\ UNCHANGED gateVars /\ UNCHANGED <<HOOK_HANDLE, GLOBAL_PAUSED, mode, exit_flag, is_active, osHooks,
                   nextHandle, unhookCalls, inputQueue, now>>

\* release_hook_on_panic
ReleaseHookOnPanic(osOk) ==
    /\ IF IsSome(GLOBAL_HOOK_HANDLE)
       THEN LET h == Unwrap(GLOBAL_HOOK_HANDLE)
            IN  /\ GLOBAL_HOOK_HANDLE' = None
                /\ osHooks' = Unhook(osHooks, h, osOk)
                /\ unhookCalls' = [unhookCalls EXCEPT ![h.id] = @ + 1]
                /\ last' = [op |-> "release", released |-> Some(h)]
       ELSE /\ last' = [op |-> "release", released |-> None]
            /\ UNCHANGED <<GLOBAL_HOOK_HANDLE, osHooks, unhookCalls>>
    /\ UNCHANGED gateVars /\ UNCHANGED <<running, MAPPER, HOOK_HANDLE, GLOBAL_PAUSED, mode, exit_flag,
                   is_active, nextHandle, inputQueue, now, stopPc, stale>>

\* set_paused
SetPaused(paused) ==
    /\ GLOBAL_PAUSED' = paused
    /\ last' = [op |-> "set_paused", value |-> paused]
    /\ UNCHANGED gateVars /\ UNCHANGED <<running, MAPPER, HOOK_HANDLE, GLOBAL_HOOK_HANDLE, mode, exit_flag,
                   is_active, osHooks, nextHandle, unhookCalls, inputQueue, now, stopPc,
                   stale>>

(***************************************************************************)
(* The hot-path callback                                                   *)
(***************************************************************************)
\* the OS calls low_level_keyboard_proc for hook h with event e; the queue is what
\* remains to dispatch besides e.  GetAsyncKeyState (shift) is an input only when
\* the callback gets as far as reading it, the outcome of each SendInput (oks)
\* only for the characters injected.
RunCallback(h, e, queue, how) ==
    LET t == h.thread
        reads == low_level_keyboard_proc(GLOBAL_PAUSED, MAPPER[t], e, FALSE, now).shift_read
    IN  /\ ~(IsSome(stopPc) /\ Unwrap(stopPc).thread = t)
        /\ \E shift \in (IF reads THEN BOOLEAN ELSE {FALSE}) :
             LET r == low_level_keyboard_proc(GLOBAL_PAUSED, MAPPER[t], e, shift, now)
             IN  \E oks \in [1..Len(r.chars) -> BOOLEAN] :
                    /\ MAPPER' = [MAPPER EXCEPT ![t] = r.mapper]
                    /\ inputQueue' = inject_chars(queue, r.chars, oks)
                    /\ stale' = StaleAfter(MAPPER', mode)
                    /\ last' = [op |-> "callback", how |-> how, thread |-> t,
                                event |-> e, shift |-> shift,
                                forwarded |-> r.forwarded, action |-> r.action,
                                called |-> r.called, chars |-> r.chars, oks |-> oks,
                                before |-> MAPPER[t], paused |-> GLOBAL_PAUSED,
                                mode |-> mode, queued |-> Len(queue)]
        /\ UNCHANGED gateVars /\ UNCHANGED <<running, HOOK_HANDLE, GLOBAL_HOOK_HANDLE, GLOBAL_PAUSED, mode,
                       exit_flag, is_active, osHooks, nextHandle, unhookCalls, now,
                       stopPc>>

\* a key event from the keyboard or from another process reaches a registered hook
KeyEvent(h, e) ==
    /\ h \in osHooks
    /\ Len(inputQueue) + 4 <= MaxQueue
    /\ RunCallback(h, e, inputQueue, "key")

\* the OS dispatches the oldest event SendInput inserted to a registered hook
DispatchInjected(h) ==
    /\ h \in osHooks
    /\ inputQueue # <<>>
    /\ RunCallback(h, Head(inputQueue), Tail(inputQueue), "injected")

\* with no hook registered the inserted event goes straight to the applications
DeliverUnhooked ==
    /\ osHooks = {}
    /\ inputQueue # <<>>
    /\ inputQueue' = Tail(inputQueue)
    /\ last' = [op |-> "deliver", event |-> Head(inputQueue)]
    /\ UNCHANGED gateVars /\ UNCHANGED <<running, MAPPER, HOOK_HANDLE, GLOBAL_HOOK_HANDLE, GLOBAL_PAUSED, mode,
                   exit_flag, is_active, osHooks, nextHandle, unhookCalls, now, stopPc,
                   stale>>

(***************************************************************************)
(* Mode Gate operations and the tray menu                                  *)
(***************************************************************************)
\* SharedState::set_mode
SetMode(m) ==
    /\ mode' = m
    /\ stale' = StaleAfter(MAPPER, mode')
    /\ last' = [op |-> "set_mode", value |-> m]
    /\ UNCHANGED gateVars /\ UNCHANGED <<running, MAPPER, HOOK_HANDLE, GLOBAL_HOOK_HANDLE, GLOBAL_PAUSED,
                   exit_flag, is_active, osHooks, nextHandle, unhookCalls, inputQueue,
                   now, stopPc>>

\* SharedState::toggle_mode
ToggleMode ==
    /\ mode' = toggle_mode(mode)
    /\ stale' = StaleAfter(MAPPER, mode')
    /\ last' = [op |-> "toggle_mode", value |-> mode', replaced |-> mode]
    /\ UNCHANGED gateVars /\ UNCHANGED <<running, MAPPER, HOOK_HANDLE, GLOBAL_HOOK_HANDLE, GLOBAL_PAUSED,
                   exit_flag, is_active, osHooks, nextHandle, unhookCalls, inputQueue,
                   now, stopPc>>

\* main's handler of the tray menu's Pause/Resume item
MenuPause ==
    /\ is_active' = ~is_active
    /\ mode' = IF is_active THEN "Passthrough" ELSE "Active"
    /\ stale' = StaleAfter(MAPPER, mode')
    /\ last' = [op |-> "menu_pause", value |-> mode']
    /\ UNCHANGED gateVars /\ UNCHANGED <<running, MAPPER, HOOK_HANDLE, GLOBAL_HOOK_HANDLE, GLOBAL_PAUSED,
                   exit_flag, osHooks, nextHandle, unhookCalls, inputQueue, now, stopPc>>

(***************************************************************************)
(* The Mode Gate's methods, step by step.  Every clone of a SharedState    *)
(* shares one Mutex<AppState> and one AtomicBool through its Arcs, so all  *)
(* clones act on mode and exit_flag.  get_mode, set_mode and toggle_mode   *)
(* take the Mutex, work on state.mode and drop the guard on return; no     *)
(* code runs under the lock that could panic, so the lock is never         *)
(* poisoned.                                                               *)
(***************************************************************************)
\* what every step of a SharedState method leaves alone
GateFrame ==
    UNCHANGED <<running, MAPPER, HOOK_HANDLE, GLOBAL_HOOK_HANDLE, GLOBAL_PAUSED,
                is_active, osHooks, nextHandle, unhookCalls, inputQueue, now, stopPc>>

\* toggle_mode: self.inner.lock()
ToggleModeLock(t) ==
    /\ gatePc[t] = GateOutside
    /\ lock_acquirable(gateLock)
    /\ IsSome(gateHist.toggles) => Unwrap(gateHist.toggles) < MaxToggles
    /\ gateLock' = Some(t)
    /\ gatePc' = [gatePc EXCEPT ![t] = [at |-> "toggle_locked"]]
    /\ gateHist' = [gateHist EXCEPT !.settled = None]
    /\ GateFrame /\ UNCHANGED <<mode, exit_flag, stale, last>>

\* toggle_mode: the read of state.mode in `match state.mode`
ToggleModeRead(t) ==
    /\ gatePc[t] = [at |-> "toggle_locked"]
    /\ gatePc' = [gatePc EXCEPT ![t] = [at |-> "toggle_read", found |-> mode]]
    /\ GateFrame /\ UNCHANGED <<mode, exit_flag, stale, gateLock, gateHist, last>>

\* toggle_mode: the assignment state.mode = ...
ToggleModeWrite(t) ==
    /\ gatePc[t].at = "toggle_read"
    /\ mode' = toggle_mode(gatePc[t].found)
    /\ stale' = StaleAfter(MAPPER, mode')
    /\ gatePc' = [gatePc EXCEPT ![t] = [at |-> "toggle_written", replaced |-> mode]]
    /\ GateFrame /\ UNCHANGED <<exit_flag, gateLock, gateHist, last>>

\* toggle_mode: Ok(state.mode), and the guard is dropped
ToggleModeReturn(t) ==
    /\ gatePc[t].at = "toggle_written"
    /\ gateLock' = None
    /\ gatePc' = [gatePc EXCEPT ![t] = GateOutside]
    /\ gateHist' = [gateHist EXCEPT !.toggles =
                        IF IsSome(@) THEN Some(Unwrap(@) + 1) ELSE None]
    /\ last' = [op |-> "toggle_mode", thread |-> t, value |-> mode,
                replaced |-> gatePc[t].replaced]
    /\ GateFrame /\ UNCHANGED <<mode, exit_flag, stale>>

\* set_mode(m): self.inner.lock()
SetModeLock(t, m) ==
    /\ gatePc[t] = GateOutside
    /\ lock_acquirable(gateLock)
    /\ gateLock' = Some(t)
    /\ gatePc' = [gatePc EXCEPT ![t] = [at |-> "set_locked", arg |-> m]]
    /\ gateHist' = [toggles |-> None, settled |-> None]
    /\ GateFrame /\ UNCHANGED <<mode, exit_flag, stale, last>>

\* set_mode(m): state.mode = mode, and the guard is dropped
SetModeReturn(t) ==
    /\ gatePc[t].at = "set_locked"
    /\ mode' = gatePc[t].arg
    /\ stale' = StaleAfter(MAPPER, mode')
    /\ gateLock' = None
    /\ gatePc' = [gatePc EXCEPT ![t] = GateOutside]
    /\ gateHist' = [gateHist EXCEPT !.settled =
                        Some([value |-> gatePc[t].arg, thread |-> t])]
    /\ last' = [op |-> "set_mode", thread |-> t, value |-> gatePc[t].arg]
    /\ GateFrame /\ UNCHANGED exit_flag

\* get_mode: self.inner.lock()
GetModeLock(t) ==
    /\ gatePc[t] = GateOutside
    /\ lock_acquirable(gateLock)
    /\ gateLock' = Some(t)
    /\ gatePc' = [gatePc EXCEPT ![t] = [at |-> "get_locked"]]
    /\ GateFrame /\ UNCHANGED <<mode, exit_flag, stale, gateHist, last>>

\* get_mode: state.mode is returned, and the guard is dropped
GetModeReturn(t) ==
    /\ gatePc[t] = [at |-> "get_locked"]
    /\ gateLock' = None
    /\ gatePc' = [gatePc EXCEPT ![t] = GateOutside]
    /\ last' = [op |-> "get_mode", thread |-> t, value |-> get_mode(mode),
                settled |-> gateHist.settled]
    /\ GateFrame /\ UNCHANGED <<mode, exit_flag, stale, gateHist>>

\* SharedState::signal_exit
SignalExit(t) ==
    /\ gatePc[t] = GateOutside
    /\ exit_flag' = signal_exit(exit_flag)
    /\ last' = [op |-> "signal_exit", thread |-> t]
    /\ GateFrame /\ UNCHANGED <<mode, stale, gateLock, gatePc, gateHist>>

\* SharedState::should_exit
ShouldExit(t) ==
    /\ gatePc[t] = GateOutside
    /\ last' = [op |-> "should_exit", thread |-> t, value |-> should_exit(exit_flag)]
    /\ GateFrame /\ UNCHANGED <<mode, exit_flag, stale, gateLock, gatePc, gateHist>>

(***************************************************************************)
(* SpecGate: one SharedState and its clones, used from both threads in any *)
(* interleaving of the methods' steps.                                     *)
(***************************************************************************)
NextGate ==
    \/ \E t \in Threads : ToggleModeLock(t)
    \/ \E t \in Threads : ToggleModeRead(t)
    \/ \E t \in Threads : ToggleModeWrite(t)
    \/ \E t \in Threads : ToggleModeReturn(t)
    \/ \E t \in Threads, m \in OperationMode : SetModeLock(t, m)
    \/ \E t \in Threads : SetModeReturn(t)
    \/ \E t \in Threads : GetModeLock(t)
    \/ \E t \in Threads : GetModeReturn(t)
    \/ \E t \in Threads : SignalExit(t)
    \/ \E t \in Threads : ShouldExit(t)

SpecGate == Init /\ [][NextGate]_vars

(***************************************************************************)
(* Spec: the hot path.  The interceptor is created, started and dropped on *)
(* the hook thread as in main.rs; the tray menu pauses and resumes;        *)
(* set_paused may be called; any key event may arrive.                     *)
(***************************************************************************)
Next ==
    \/ \E osOk \in BOOLEAN : Start("hook", osOk)
    \/ \E osOk \in BOOLEAN : StopUnhook("hook", osOk)
    \/ StopFinish
    \/ \E paused \in BOOLEAN : SetPaused(paused)
    \/ \E h \in osHooks, e \in SampleEvents : KeyEvent(h, e)
    \/ \E h \in osHooks : DispatchInjected(h)
    \/ DeliverUnhooked
    \/ MenuPause

Spec == Init /\ [][Next]_vars

(***************************************************************************)
(* SpecLife: the interceptor's lifecycle.  start runs on the hook thread    *)
(* (main.rs), stop on either thread (the interceptor is Send),             *)
(* release_hook_on_panic at any point, and the dead key ' arrives to give  *)
(* the Mapper a pending accent.                                            *)
(***************************************************************************)
NextLife ==
    \/ \E osOk \in BOOLEAN : Start("hook", osOk)
    \/ \E t \in Threads, osOk \in BOOLEAN : StopUnhook(t, osOk)
    \/ StopFinish
    \/ \E osOk \in BOOLEAN : ReleaseHookOnPanic(osOk)
    \/ \E h \in osHooks : KeyEvent(h, KeyDown(222))
    \/ \E h \in osHooks : DispatchInjected(h)
    \/ DeliverUnhooked

SpecLife == Init /\ [][NextLife]_vars

(***************************************************************************)
(* SpecMapper: one Mapper on its own, as the tests of mapper.rs and        *)
(* tests/mapper_properties.rs drive it: any VirtualKey with either shift   *)
(* value, check_timeout and reset at any moment, and the clock advancing.  *)
(* The Mapper is the one of the hook thread.                               *)
(***************************************************************************)
\* the characters a Char key carries: the twelve combinable letters of
\* combinable_char_strategy, and x, X and 1 that no accent combines with
SampleChars == {97, 65, 101, 69, 105, 73, 111, 79, 117, 85, 110, 78, 120, 88, 49}

\* enum VirtualKey
VirtualKey ==
    {<<"Semicolon">>, <<"Apostrophe">>, <<"LeftBracket">>, <<"RightBracket">>,
     <<"Backslash">>, <<"Slash">>, <<"Space">>, <<"Other">>}
    \cup {<<"Char", c>> : c \in SampleChars}

\* the Mapper under test
TheMapper == Unwrap(MAPPER["hook"])

\* let mut mapper = Mapper::new();
InitMapper ==
    /\ running = FALSE
    /\ MAPPER = [t \in Threads |-> IF t = "hook" THEN Some(NewMapper) ELSE None]
    /\ HOOK_HANDLE = [t \in Threads |-> None]
    /\ GLOBAL_HOOK_HANDLE = None
    /\ GLOBAL_PAUSED = FALSE
    /\ mode = "Active"
    /\ exit_flag = FALSE
    /\ is_active = TRUE
    /\ osHooks = {}
    /\ nextHandle = 1
    /\ unhookCalls = [i \in 1..MaxInstalls |-> 0]
    /\ inputQueue = <<>>
    /\ now = 0
    /\ stopPc = None
    /\ stale = {}
    /\ gateLock = None
    /\ gatePc = [t \in Threads |-> GateOutside]
    /\ gateHist = NewGateHist
    /\ last = [op |-> "new"]

\* mapper.process_key(key, shift)
ProcessKey(key, shift) ==
    LET r == process_key(TheMapper, key, shift, now)
    IN  /\ MAPPER' = [MAPPER EXCEPT !["hook"] = Some(r.mapper)]
        /\ last' = [op |-> "process_key", key |-> key, shift |-> shift,
                    before |-> TheMapper, action |-> Some(r.action), at |-> now]
        /\ UNCHANGED gateVars /\ UNCHANGED <<running, HOOK_HANDLE, GLOBAL_HOOK_HANDLE, GLOBAL_PAUSED, mode,
                       exit_flag, is_active, osHooks, nextHandle, unhookCalls,
                       inputQueue, now, stopPc, stale>>

\* mapper.check_timeout()
CheckTimeout ==
    LET r == check_timeout(TheMapper, now)
    IN  /\ MAPPER' = [MAPPER EXCEPT !["hook"] = Some(r.mapper)]
        /\ last' = [op |-> "check_timeout", before |-> TheMapper,
                    action |-> r.action, at |-> now]
        /\ UNCHANGED gateVars /\ UNCHANGED <<running, HOOK_HANDLE, GLOBAL_HOOK_HANDLE, GLOBAL_PAUSED, mode,
                       exit_flag, is_active, osHooks, nextHandle, unhookCalls,
                       inputQueue, now, stopPc, stale>>

\* mapper.reset()
Reset ==
    /\ MAPPER' = [MAPPER EXCEPT !["hook"] = Some(reset(TheMapper))]
    /\ last' = [op |-> "reset", before |-> TheMapper, action |-> None, at |-> now]
    /\ UNCHANGED gateVars /\ UNCHANGED <<running, HOOK_HANDLE, GLOBAL_HOOK_HANDLE, GLOBAL_PAUSED, mode,
                   exit_flag, is_active, osHooks, nextHandle, unhookCalls,
                   inputQueue, now, stopPc, stale>>

\* the monotonic clock of Instant::now advances by TickMs milliseconds
Tick ==
    /\ now < MaxNow
    /\ now' = now + 1
    /\ last' = [op |-> "tick"]
    /\ UNCHANGED gateVars /\ UNCHANGED <<running, MAPPER, HOOK_HANDLE, GLOBAL_HOOK_HANDLE, GLOBAL_PAUSED,
                   mode, exit_flag, is_active, osHooks, nextHandle, unhookCalls,
                   inputQueue, stopPc, stale>>

NextMapper ==
    \/ \E key \in VirtualKey, shift \in BOOLEAN : ProcessKey(key, shift)
    \/ CheckTimeout
    \/ Reset
    \/ Tick

SpecMapper == InitMapper /\ [][NextMapper]_vars

(***************************************************************************)
(* SpecRun: the running system as main.rs leaves it.  The hook thread      *)
(* starts the interceptor and then blocks in GetMessageW for good; the     *)
(* only code that runs on it afterwards is low_level_keyboard_proc, once   *)
(* per event the OS dispatches.  Time passes, and the OS dispatches every  *)
(* event SendInput inserted; whether the user presses another key is up to *)
(* the user, so key events carry no fairness.                              *)
(***************************************************************************)
\* the hook thread of main calls interceptor.start once, before anything else
HookThreadStart(osOk) ==
    /\ MAPPER["hook"] = None
    /\ Start("hook", osOk)

NextRun ==
    \/ \E osOk \in BOOLEAN : HookThreadStart(osOk)
    \/ \E h \in osHooks, e \in SampleEvents : KeyEvent(h, e)
    \/ \E h \in osHooks : DispatchInjected(h)
    \/ Tick

SpecRun ==
    /\ Init
    /\ [][NextRun]_vars
    /\ WF_vars(Tick)
    /\ WF_vars(\E h \in osHooks : DispatchInjected(h))

(***************************************************************************)
(* Properties                                                              *)
(***************************************************************************)
\* the OS flagged the event as injected (LLKHF_INJECTED, bit 4 of flags)
OsInjected(e) == e.flags \in {LLKHF_INJECTED, LLKHF_INJECTED + LLKHF_UP}

\* the hook and the Mapper of the session the last successful start opened
SessionHook == [id |-> nextHandle - 1, thread |-> "hook"]

\* C1: while the Mode Gate's mode is Passthrough the callback forwards every event
\* unmodified: nothing swallowed, nothing injected, the Mapper not called.
C1_PassthroughForwardsAll ==
    (last.op = "callback" /\ last.mode = "Passthrough")
        => (last.forwarded /\ last.chars = <<>> /\ ~last.called)

\* C2: a Mapper that held a pending accent when the mode became Passthrough has
\* been reset by the time the mode is Active again.
C2_PauseResetsMapper == (mode = "Active") => (stale = {})

\* C3: an event carrying the OS injected flag is forwarded without calling
\* process_key: Mapper state and timestamp unchanged, nothing injected.
C3_InjectedBypassesMapper ==
    (last.op = "callback" /\ OsInjected(last.event))
        => /\ last.forwarded
           /\ ~last.called
           /\ last.chars = <<>>
           /\ MAPPER[last.thread] = last.before

C3_Witness ==
    /\ last.op = "callback"
    /\ OsInjected(last.event)
    /\ last.event.msg = WM_KEYDOWN
    /\ last.event.vkCode = 65
    /\ ~last.paused
    /\ IsSome(last.before)
    /\ IsPending(Unwrap(last.before).state)

\* C4: start on a running interceptor returns HookInstallError and changes nothing:
\* still running, no second hook, the existing Mapper (pending accent included) kept.
C4_StartWhileRunningRejected ==
    [][(last'.op = "start" /\ running)
        => /\ last'.result = "HookInstallError"
           /\ running'
           /\ UNCHANGED <<MAPPER, HOOK_HANDLE, GLOBAL_HOOK_HANDLE, osHooks, nextHandle>>]_vars

C4_Witness ==
    /\ last.op = "start"
    /\ last.was_running
    /\ is_running
    /\ IsSome(MAPPER["hook"])
    /\ IsPending(Unwrap(MAPPER["hook"]).state)

\* C5: stop on an interceptor that is not running returns Ok and leaves is_running
\* false and all hook and Mapper state unchanged, so repeated stops do what one does.
C5_StopIdempotent ==
    [][(last'.op = "stop" /\ ~running)
        => /\ last'.result = "Ok"
           /\ ~running'
           /\ UNCHANGED <<MAPPER, HOOK_HANDLE, GLOBAL_HOOK_HANDLE, osHooks, nextHandle,
                          unhookCalls, stopPc>>]_vars

C5_Witness ==
    /\ last.op = "stop"
    /\ ~last.was_running
    /\ ~is_running
    /\ IsSome(MAPPER["hook"])
    /\ IsSome(HOOK_HANDLE["hook"])

\* C6: stop and release_hook_on_panic together perform the OS unhook of an installed
\* hook exactly once, in any interleaving: the second of the two finds nothing to
\* release, so no unhook is performed on a hook that has already been unregistered.
C6_UnhookExactlyOnce ==
    [][\A i \in DOMAIN unhookCalls :
          (unhookCalls'[i] > unhookCalls[i]) => ([id |-> i, thread |-> "hook"] \in osHooks)]_vars

\* C7: after stop returns on a running interceptor, the hook start installed is no
\* longer registered and the Mapper is discarded, whichever thread called stop
\* (an unhook the OS refused aside).
C7_StopReleasesOnAnyThread ==
    (last.op = "stop" /\ last.was_running /\ ~last.refused)
        => (SessionHook \notin osHooks /\ MAPPER["hook"] = None)

\* C8: after stop returns on a running interceptor, is_running is false whether or
\* not the OS unregistered the hook.
C8_StoppedEvenIfUnhookFails ==
    (last.op = "stop" /\ last.was_running) => ~is_running

C8_Witness ==
    /\ last.op = "stop"
    /\ last.was_running
    /\ last.refused
    /\ SessionHook \in osHooks

\* C9: when the OS refuses to unregister the hook, stop returns HookReleaseError.
C9_StopReportsRefusal ==
    (last.op = "stop" /\ last.was_running /\ last.refused)
        => last.result = "HookReleaseError"

\* C10: when the OS fails to register the hook, start returns HookInstallError,
\* is_running stays false, no handle is recorded thread-locally or process-wide, and
\* a start that follows is attempted afresh (it installs when the OS then agrees).
C10_FailedInstallLeavesStopped ==
    /\ [][(last'.op = "start" /\ ~running /\ ~last'.os_ok)
            => /\ last'.result = "HookInstallError"
               /\ ~running'
               /\ last'.installed = None
               /\ GLOBAL_HOOK_HANDLE' = None
               /\ UNCHANGED <<HOOK_HANDLE, GLOBAL_HOOK_HANDLE, osHooks, nextHandle>>]_vars
    /\ [][(last.op = "start" /\ ~last.was_running /\ ~last.os_ok
           /\ last'.op = "start" /\ last'.os_ok)
            => /\ last'.result = "Ok"
               /\ running'
               /\ GLOBAL_HOOK_HANDLE' = last'.installed
               /\ HOOK_HANDLE'[last'.thread] = last'.installed]_vars

C10_Witness ==
    /\ last.op = "start"
    /\ ~last.was_running
    /\ ~last.os_ok
    /\ last.result = "HookInstallError"
    /\ ~is_running
    /\ nextHandle > 1

(***************************************************************************)
(* Properties of the Mapper on its own (SpecMapper)                        *)
(***************************************************************************)
\* the last operation was process_key on a Mapper that was Idle
IdleKey == last.op = "process_key" /\ last.before.state = Idle

\* the last operation was process_key on a Mapper that held a pending accent
PendingKey == last.op = "process_key" /\ IsPending(last.before.state)

\* the documented direct table: <<key, shift, character>>
DocumentedPositions ==
    {<<"Semicolon", FALSE, 231>>, <<"Semicolon", TRUE, 199>>,
     <<"RightBracket", FALSE, 91>>, <<"RightBracket", TRUE, 123>>,
     <<"Backslash", FALSE, 93>>, <<"Backslash", TRUE, 125>>,
     <<"Slash", FALSE, 59>>, <<"Slash", TRUE, 58>>}

\* C11: in state Idle, process_key on each positional key (Semicolon, RightBracket,
\* Backslash, Slash) with each shift value returns Replace of the documented
\* character, and the state remains Idle.
C11_PositionalKeysReplace ==
    \A d \in DocumentedPositions :
        (IdleKey /\ last.key = <<d[1]>> /\ last.shift = d[2])
            => /\ last.action = Some(Replace(d[3]))
               /\ TheMapper.state = Idle

\* Idle, Shift+Slash: the colon replaces the key and the Mapper is still Idle
C11_Witness ==
    /\ IdleKey /\ last.key = <<"Slash">> /\ last.shift
    /\ last.action = Some(Replace(58))
    /\ TheMapper.state = Idle

\* the documented dead keys: <<key, shift, accent>>
DocumentedDeadKeys ==
    {<<"Apostrophe", FALSE, "Tilde">>, <<"Apostrophe", TRUE, "Circumflex">>,
     <<"LeftBracket", FALSE, "Acute">>, <<"LeftBracket", TRUE, "Grave">>}

\* C12: in state Idle, process_key on a dead-key trigger returns Suppress and moves
\* to PendingAccent(accent): Apostrophe gives Tilde, Shift+Apostrophe Circumflex,
\* LeftBracket Acute, Shift+LeftBracket Grave.
C12_DeadKeyTrigger ==
    \A d \in DocumentedDeadKeys :
        (IdleKey /\ last.key = <<d[1]>> /\ last.shift = d[2])
            => /\ last.action = Some(Suppress)
               /\ TheMapper.state = PendingAccent(d[3])

\* Idle, Shift+Apostrophe: the key is suppressed and a Circumflex is pending
C12_Witness ==
    /\ IdleKey /\ last.key = <<"Apostrophe">> /\ last.shift
    /\ last.action = Some(Suppress)
    /\ TheMapper.state = PendingAccent("Circumflex")

\* the character of a Char key as shift normalises it
Normalised(key, shift) ==
    IF shift THEN to_ascii_uppercase(key[2]) ELSE to_ascii_lowercase(key[2])

\* the last operation was process_key(Char(c), shift) on a pending accent
PendingChar == PendingKey /\ last.key[1] = "Char"

CombinableChars == {97, 65, 101, 69, 105, 73, 111, 79, 117, 85, 110, 78}

\* C14: after a dead-key trigger (either shift value), for a follow character c in
\* {a,A,e,E,i,I,o,O,u,U,n,N}, process_key(Char(c), shift = false) returns Replace(x)
\* only when (accent, c), with c's case exactly as passed, is in the combination
\* table, and then x is the table's entry for (accent, c); the state is Idle afterwards.
C14_CombinationAsPassed ==
    (PendingChar /\ last.key[2] \in CombinableChars /\ ~last.shift) =>
        LET asPassed == accent_combinations(last.before.state[2], last.key[2])
        IN  /\ Unwrap(last.action)[1] = "Replace"
                => (IsSome(asPassed) /\ Unwrap(last.action)[2] = Unwrap(asPassed))
            /\ TheMapper.state = Idle

\* C15: in PendingAccent(accent), process_key(Char(c), shift) with (accent,
\* normalised c) not in the combination table returns ReplaceMultiple of exactly two
\* characters, the accent's glyph first and the normalised character second, and
\* moves to Idle.
C15_NonCombinableFallback ==
    (PendingChar /\ ~IsSome(accent_combinations(last.before.state[2],
                                                Normalised(last.key, last.shift))))
        => /\ last.action = Some(ReplaceMultiple(<<to_char(last.before.state[2]),
                                                   Normalised(last.key, last.shift)>>))
           /\ Len(Unwrap(last.action)[2]) = 2
           /\ TheMapper.state = Idle

\* Grave pending, Char('X') without shift: the grave glyph, then a lower-case x
C15_Witness ==
    /\ PendingChar /\ last.before.state = PendingAccent("Grave")
    /\ last.key = <<"Char", 88>> /\ ~last.shift
    /\ last.action = Some(ReplaceMultiple(<<96, 120>>))
    /\ TheMapper.state = Idle

TimedOutCheck ==
    /\ last.op = "check_timeout"
    /\ IsPending(last.before.state)
    /\ elapsed(Unwrap(last.before.last_accent_time), last.at) >= ACCENT_TIMEOUT

\* C17: when an accent has been pending for at least 500 ms with no process_key in
\* between, check_timeout returns Replace of the accent's glyph and sets the state
\* to Idle; a second check_timeout immediately afterwards returns no action, so the
\* glyph is produced exactly once.
C17_TimeoutFiresOnce ==
    [][/\ TimedOutCheck'
            => /\ last'.action = Some(Replace(to_char(last'.before.state[2])))
               /\ TheMapper'.state = Idle
       /\ (TimedOutCheck /\ last'.op = "check_timeout")
            => last'.action = None]_vars

\* a tilde pending since tick 0 is checked 500 ms later: the tilde comes out
C17_Witness ==
    /\ TimedOutCheck
    /\ last.before = [state |-> PendingAccent("Tilde"), last_accent_time |-> Some(0)]
    /\ elapsed(0, last.at) = ACCENT_TIMEOUT
    /\ last.action = Some(Replace(126))
    /\ TheMapper.state = Idle

\* check_timeout was last called, on a Mapper that was Idle or whose accent was
\* pending for less than ACCENT_TIMEOUT
EarlyCheck ==
    /\ last.op = "check_timeout"
    /\ \/ last.before.state = Idle
       \/ /\ IsPending(last.before.state)
          /\ elapsed(Unwrap(last.before.last_accent_time), last.at) < ACCENT_TIMEOUT

\* C18: check_timeout called while the state is Idle, or while an accent has been
\* pending for less than 500 ms, returns no action and leaves the state and the
\* pending timestamp unchanged.
C18_EarlyCheckChangesNothing ==
    EarlyCheck => /\ last.action = None
                  /\ TheMapper.state = last.before.state
                  /\ TheMapper.last_accent_time = last.before.last_accent_time

\* an acute pending since tick 1 is checked one tick later: nothing happens
C18_Witness ==
    /\ EarlyCheck
    /\ last.before = [state |-> PendingAccent("Acute"), last_accent_time |-> Some(1)]
    /\ last.at = 2
    /\ last.action = None
    /\ TheMapper = last.before

\* C20: reset() from any Mapper state (Idle, or PendingAccent of any accent) yields
\* state Idle with no pending timestamp, and reset(); reset() has the same result
\* as a single reset().
C20_ResetIdempotent ==
    [][last'.op = "reset"
          => /\ TheMapper'.state = Idle
             /\ TheMapper'.last_accent_time = None
             /\ last.op = "reset" => TheMapper' = TheMapper]_vars

\* reset on a pending circumflex: Idle, and the timestamp is gone
C20_Witness ==
    /\ last.op = "reset"
    /\ last.before.state = PendingAccent("Circumflex")
    /\ IsSome(last.before.last_accent_time)
    /\ TheMapper = [state |-> Idle, last_accent_time |-> None]

(***************************************************************************)
(* Properties of the running system (SpecRun)                              *)
(***************************************************************************)
\* the hook thread's Mapper holds a pending accent
HookPending == "hook" \in PendingThreads(MAPPER)

\* a key event has just reached the callback while an accent was pending
FurtherKey ==
    /\ last.op = "callback" /\ last.how = "key"
    /\ IsSome(last.before) /\ IsPending(Unwrap(last.before).state)

\* C19: in the running system, when a dead key has put the Mapper in PendingAccent
\* and no further key event arrives, the pending accent is eventually resolved (its
\* glyph injected, the Mapper Idle again): it does not wait for a second keystroke
\* for ever.
C19_PendingAccentSelfResolves == HookPending ~> (~HookPending \/ FurtherKey)

\* C21: in state Idle, process_key on a key that is neither a dead-key trigger nor a
\* positional key (Char(c) for any c, Space, Other), with either shift value,
\* returns Pass and leaves the state Idle and the timestamp unset.
C21_IdlePassThrough ==
    (IdleKey /\ last.key[1] \in {"Char", "Space", "Other"})
        => /\ last.action = Some(Pass)
           /\ TheMapper.state = Idle
           /\ TheMapper.last_accent_time = None

\* Idle, Shift+Space at tick 1: passed on, the Mapper as new
C21_Witness ==
    /\ IdleKey /\ last.key = <<"Space">> /\ last.shift /\ last.at = 1
    /\ last.action = Some(Pass)
    /\ TheMapper = NewMapper

(***************************************************************************)
(* Properties of the Mode Gate (SpecGate)                                  *)
(***************************************************************************)
\* the other mode
Flipped(m) == IF m = "Active" THEN "Passthrough" ELSE "Active"

\* no thread is between the lock and the return of a toggle_mode or a set_mode
NoWriterInside ==
    \A t \in Threads : gatePc[t].at \in {"outside", "get_locked"}

\* C22: a fresh Mode Gate has mode Active; the first toggle_mode returns Passthrough
\* and the second Active; in general a toggle_mode that follows a toggle_mode with no
\* other write in between returns the mode held before the first of the two.
C22_ToggleRoundTrip ==
    /\ [](/\ (gateHist = NewGateHist /\ NoWriterInside) => mode = "Active"
          /\ (last.op = "toggle_mode" /\ gateHist.toggles = Some(1))
                => last.value = "Passthrough"
          /\ (last.op = "toggle_mode" /\ gateHist.toggles = Some(2))
                => last.value = "Active")
    /\ [][(last.op = "toggle_mode" /\ \E t \in Threads : ToggleModeReturn(t))
              => (last'.value = last.replaced /\ mode' = last.replaced)]_vars

\* the second toggle_mode on a fresh Mode Gate has returned Active
C22_Witness ==
    /\ last.op = "toggle_mode" /\ gateHist.toggles = Some(2)
    /\ last.value = "Active" /\ last.replaced = "Passthrough"
    /\ mode = "Active" /\ NoWriterInside

\* C23: toggle_mode, set_mode and get_mode are atomic with respect to each other
\* under any interleaving of the threads: each toggle_mode returns the other mode
\* than the one it replaced, no toggle is lost (after n completed toggles from Active
\* and no set_mode, the mode is Passthrough exactly when n is odd), and the mode is
\* always Active or Passthrough.
C23_GateAtomic ==
    /\ mode \in OperationMode
    /\ last.op = "toggle_mode" => last.value = Flipped(last.replaced)
    /\ (IsSome(gateHist.toggles) /\ NoWriterInside)
          => (mode = "Passthrough" <=> Unwrap(gateHist.toggles) % 2 = 1)

\* three toggles are complete, the last by the UI thread, while the hook thread is
\* inside get_mode: the mode is Passthrough
C23_Witness ==
    /\ gateHist.toggles = Some(3)
    /\ last.op = "toggle_mode" /\ last.thread = "ui"
    /\ gatePc["hook"].at = "get_locked"
    /\ mode = "Passthrough"

\* C24: after set_mode(m) has completed on any clone of a SharedState, get_mode on
\* every clone, from any thread, returns m until the next set_mode or toggle_mode.
C24_SetModeVisible ==
    (last.op = "get_mode" /\ IsSome(last.settled))
        => last.value = Unwrap(last.settled).value

\* the hook thread reads the Passthrough the UI thread has set
C24_Witness ==
    /\ last.op = "get_mode" /\ last.thread = "hook"
    /\ last.settled = Some([value |-> "Passthrough", thread |-> "ui"])
    /\ last.value = "Passthrough"

\* C25: should_exit() is false on a fresh Mode Gate, is true on every clone once any
\* clone has called signal_exit, and never returns to false; signal_exit does not
\* change the mode, and get_mode, set_mode and toggle_mode do not change the exit flag.
C25_ExitFlagLatches ==
    /\ ~should_exit(exit_flag)
    /\ [](/\ last.op = "signal_exit" => exit_flag
          /\ last.op = "should_exit" => last.value = exit_flag)
    /\ [][/\ exit_flag => exit_flag'
          /\ (\E t \in Threads : SignalExit(t)) => mode' = mode
          /\ gatePc' # gatePc => exit_flag' = exit_flag]_vars

\* after a signal_exit and a change of mode, should_exit answers true
C25_Witness ==
    /\ last.op = "should_exit" /\ last.value
    /\ mode = "Passthrough"

(***************************************************************************)
(* Properties of the hot-path callback (Spec)                              *)
(***************************************************************************)
\* the last operation was the callback on a genuine key-down event, with neither
\* the pause flag nor the Mode Gate asking for passthrough
ActiveKeyDown ==
    /\ last.op = "callback"
    /\ last.event.code >= 0
    /\ last.event.msg \in {WM_KEYDOWN, WM_SYSKEYDOWN}
    /\ ~OsInjected(last.event)
    /\ ~last.paused /\ last.mode = "Active"

\* the Mapper of the thread the last callback ran on held a pending accent before it
PendingBefore == IsSome(last.before) /\ IsPending(Unwrap(last.before).state)

\* C26: while interception is active (not paused), every genuine (non-injected)
\* key-down event that reaches the callback while the Mapper is in PendingAccent
\* leaves the Mapper in Idle, whatever the key: a pending accent never survives a
\* subsequent key-down event.
C26_KeyDownClearsPending ==
    (ActiveKeyDown /\ PendingBefore)
        => Unwrap(MAPPER[last.thread]).state = Idle

\* the characters the callback has to inject for the action the Mapper returned
CharsToInject(action) ==
    IF action[1] = "Replace" THEN <<action[2]>>
    ELSE IF action[1] = "ReplaceMultiple" THEN action[2]
    ELSE <<>>

\* C27: the callback applies the Mapper's action exactly as returned: Pass forwards
\* the original event and injects nothing; Suppress swallows it and injects nothing;
\* Replace(c) swallows it and injects c once; ReplaceMultiple(cs) swallows it and
\* injects every character of cs once, in list order.  No event is both forwarded
\* and swallowed.  To inject is to call inject_char; where the OS accepts the input
\* the events of the characters are queued in that order.
C27_ActionApplied ==
    (last.op = "callback" /\ last.called)
        => LET action == Unwrap(last.action)
           IN  /\ last.forwarded <=> action = Pass
               /\ last.chars = CharsToInject(action)
               /\ action[1] \in {"Pass", "Suppress"} => last.chars = <<>>
               /\ (\A i \in 1..Len(last.chars) : last.oks[i])
                     => LET k == Len(last.chars)
                            n == Len(inputQueue)
                        IN  /\ n >= 2 * k
                            /\ \A i \in 1..k :
                                  /\ inputQueue[n - 2 * k + 2 * i - 1].scan = last.chars[i]
                                  /\ inputQueue[n - 2 * k + 2 * i].scan = last.chars[i]

\* a tilde was pending and X came: the key is swallowed, ~ and x are injected in
\* this order and the four events wait for dispatch
C27_Witness ==
    /\ last.op = "callback" /\ last.called /\ ~last.forwarded
    /\ last.action = Some(ReplaceMultiple(<<126, 120>>))
    /\ last.chars = <<126, 120>>
    /\ last.oks = <<TRUE, TRUE>>
    /\ [i \in 1..Len(inputQueue) |-> inputQueue[i].scan] = <<126, 126, 120, 120>>

\* a key event has just made the callback inject exactly one character, which the
\* OS accepted
InjectsOne ==
    /\ last.op = "callback" /\ last.how = "key"
    /\ Len(last.chars) = 1
    /\ last.oks = <<TRUE>>

\* C28: injecting one character produces exactly one key-down event followed by one
\* key-up event carrying that character, and both events arrive at the callback
\* marked as injected, so neither reaches the Mapper.
C28_InjectedPairBypasses ==
    /\ InjectsOne =>
          LET n == last.queued
              q == inputQueue
          IN  /\ Len(q) = n + 2
              /\ q[n + 1].msg = WM_KEYDOWN /\ q[n + 2].msg = WM_KEYUP
              /\ q[n + 1].scan = last.chars[1] /\ q[n + 2].scan = last.chars[1]
              /\ OsInjected(q[n + 1]) /\ OsInjected(q[n + 2])
    /\ (last.op = "callback" /\ last.how = "injected")
          => /\ OsInjected(last.event)
             /\ last.forwarded /\ ~last.called /\ last.chars = <<>>
             /\ MAPPER[last.thread] = last.before

\* the key-up of an injected c-cedilla has come back to the callback and was forwarded
C28_Witness ==
    /\ last.op = "callback" /\ last.how = "injected"
    /\ last.event.msg = WM_KEYUP /\ last.event.scan = 231
    /\ last.forwarded /\ ~last.called
    /\ inputQueue = <<>>

\* C29: the callback forwards every event that is not a key-down transition (key-up
\* and all others) without calling the Mapper: the Mapper's state is unchanged and
\* nothing is injected, including the key-up of a key whose key-down was swallowed.
C29_NonKeyDownForwarded ==
    (last.op = "callback" /\ last.event.msg \notin {WM_KEYDOWN, WM_SYSKEYDOWN})
        => /\ last.forwarded /\ ~last.called
           /\ last.chars = <<>>
           /\ MAPPER[last.thread] = last.before

\* the key-up of the dead key ', whose key-down was swallowed: forwarded, the tilde
\* still pending
C29_Witness ==
    /\ last.op = "callback" /\ last.how = "key"
    /\ last.event.msg = WM_KEYUP /\ last.event.vkCode = 222
    /\ ~last.paused /\ last.forwarded /\ ~last.called
    /\ last.before = Some([state |-> PendingAccent("Tilde"), last_accent_time |-> Some(0)])
    /\ MAPPER[last.thread] = last.before

\* the OS key codes vk_to_virtual_key has an entry for: the six OEM keys, Space, A-Z
HandledCodes == {186, 222, 219, 221, 220, 191, 32} \cup (65..90)

\* C30: a key-down event whose OS key code translates to VirtualKey::Other (anything
\* but the six OEM keys, Space and A-Z) is forwarded unmodified by the callback
\* without calling Mapper::process_key, in every Mapper state.
C30_OtherKeysForwarded ==
    (/\ last.op = "callback"
     /\ last.event.msg \in {WM_KEYDOWN, WM_SYSKEYDOWN}
     /\ last.event.vkCode \notin HandledCodes)
        => /\ last.forwarded /\ ~last.called
           /\ last.chars = <<>>
           /\ MAPPER[last.thread] = last.before

\* Enter while a tilde is pending: forwarded, the Mapper not asked
C30_Witness ==
    /\ ActiveKeyDown /\ PendingBefore
    /\ last.event.vkCode = 13
    /\ last.forwarded /\ ~last.called
    /\ MAPPER[last.thread] = last.before

(***************************************************************************)
(* Properties of the interceptor's lifecycle, continued (SpecLife)         *)
(***************************************************************************)
\* C31: a Mapper exists exactly while the interceptor is running: at every point
\* between lifecycle operations, a failed start included, the thread that starts the
\* interceptor holds a Mapper if and only if is_running() is true (a successful start
\* creates it, stop discards it).
C31_MapperIffRunning ==
    stopPc = None => (IsSome(MAPPER["hook"]) <=> is_running)

(***************************************************************************)
(* Properties of the Mapper on its own, continued (SpecMapper)             *)
(***************************************************************************)
\* C32: in every reachable Mapper state, after any sequence of process_key,
\* check_timeout and reset, the state is PendingAccent exactly when a pending-accent
\* timestamp is recorded: PendingAccent never lacks its entry time, Idle never holds
\* one.
C32_PendingIffTimestamp ==
    IsPending(TheMapper.state) <=> IsSome(TheMapper.last_accent_time)

\* a grave accent entered at tick 2, after the earlier operations
C32_Witness ==
    /\ last.op = "process_key" /\ last.at = 2
    /\ TheMapper = [state |-> PendingAccent("Grave"), last_accent_time |-> Some(2)]

(***************************************************************************)
(* Properties of the hot-path callback, continued (Spec)                   *)
(***************************************************************************)
\* C33: when the callback handles a key-down event and no Mapper is available on the
\* calling thread, it forwards the event unmodified (the action degrades to Pass) and
\* injects nothing.
C33_NoMapperPasses ==
    (/\ last.op = "callback"
     /\ last.event.msg \in {WM_KEYDOWN, WM_SYSKEYDOWN}
     /\ last.before = None)
        => /\ last.forwarded
           /\ last.chars = <<>>
           /\ last.action \in {None, Some(Pass)}
           /\ Len(inputQueue) = last.queued
           /\ MAPPER[last.thread] = None

\* stop could not unregister the hook and discarded the Mapper; the dead key ' then
\* reaches the callback, which passes it on
C33_Witness ==
    /\ ActiveKeyDown /\ last.event.vkCode = 222
    /\ last.before = None
    /\ last.action = Some(Pass) /\ last.forwarded
    /\ ~running

\* the OS refused at least one of the injections the last callback asked for
InjectionFailed ==
    /\ last.op = "callback"
    /\ last.chars # <<>>
    /\ \E i \in 1..Len(last.chars) : ~last.oks[i]

\* C34: if character injection fails while the callback applies Replace or
\* ReplaceMultiple, the triggering key event is dropped and nothing is typed for that
\* keystroke: the original event is not forwarded and none of the intended characters
\* is emitted, so never a proper subset of them.
C34_FailedInjectionTypesNothing ==
    InjectionFailed => /\ ~last.forwarded
                       /\ Len(inputQueue) = last.queued

(***************************************************************************)
(* Properties of the Mapper on its own, continued (SpecMapper)             *)
(***************************************************************************)
\* the characters that show the accent: its glyph and its combined characters
AccentChars(accent) ==
    {to_char(accent)}
    \cup {Unwrap(accent_combinations(accent, c)) :
            c \in {x \in CombinableChars : IsSome(accent_combinations(accent, x))}}

\* the action carries the accent: its glyph or a combined character alone, or its
\* glyph first in a ReplaceMultiple
Carries(action, accent) ==
    \/ action[1] = "Replace" /\ action[2] \in AccentChars(accent)
    \/ action[1] = "ReplaceMultiple" /\ action[2][1] = to_char(accent)

\* the accents the returned action carries (none when nothing was returned)
Carried(actionOpt) ==
    IF actionOpt = None THEN {}
    ELSE {accent \in AccentType : Carries(Unwrap(actionOpt), accent)}

\* C35: accent conservation over process_key and check_timeout: a Suppress is
\* returned only for a dead key pressed in Idle and leaves its accent pending; while
\* an accent is pending no further Suppress is returned, and the first action
\* returned carries exactly that accent and ends the pending state; a step from Idle
\* carries no accent.  So each trigger's accent is emitted exactly once, before the
\* next trigger, and none without a trigger.
C35_AccentConservation ==
    last.op \in {"process_key", "check_timeout"} =>
        LET b == last.before.state
        IN  /\ last.action = Some(Suppress)
                 => (b = Idle /\ IsPending(TheMapper.state))
            /\ IsPending(TheMapper.state)
                 => (last.action = Some(Suppress) \/ TheMapper = last.before)
            /\ b = Idle => Carried(last.action) = {}
            /\ IsPending(b) =>
                 IF last.action = None
                 THEN TheMapper = last.before
                 ELSE /\ Carried(last.action) = {b[2]}
                      /\ TheMapper.state = Idle

\* an acute accent was pending and E came with shift: E-acute carries it, once
C35_Witness ==
    /\ last.op = "process_key"
    /\ last.before.state = PendingAccent("Acute")
    /\ last.action = Some(Replace(201))
    /\ Carried(last.action) = {"Acute"}
    /\ TheMapper.state = Idle

(***************************************************************************)
(* Properties of the lifecycle, continued (SpecLife)                       *)
(***************************************************************************)
\* the process-wide recoverable handle holds a hook that the OS has registered
HookHeldGlobally == \E h \in osHooks : GLOBAL_HOOK_HANDLE = Some(h)

\* C36: between lifecycle operations (start, stop, release_hook_on_panic),
\* is_running() is true exactly when the OS hook is registered and the process-wide
\* recoverable handle holds it.
C36_RunningIffHooked ==
    stopPc = None => (is_running <=> HookHeldGlobally)

\* the times a pending accent may have been entered at, and the calls may be made at
Instants == 0..MaxNow
Stamps == {None} \cup {Some(i) : i \in Instants}

\* the last operation was process_key on an accent entered at least ACCENT_TIMEOUT
\* ago that check_timeout was not called on
StalePendingKey ==
    /\ PendingKey
    /\ IsSome(last.before.last_accent_time)
    /\ (last.at - Unwrap(last.before.last_accent_time)) * TickMs > ACCENT_TIMEOUT

\* C37: process_key is a function of (Mapper state, key, shift) only: whatever
\* timestamp the Mapper holds and whatever the time of the call, the same state, key
\* and shift give the action that was returned and the state that was reached; and
\* an accent pending for more than 500 ms that check_timeout has not polled still
\* composes with the next key.
C37_TimeIndependent ==
    last.op = "process_key" =>
        /\ \A ts \in Stamps, t \in Instants :
               LET r == process_key([state |-> last.before.state,
                                     last_accent_time |-> ts],
                                    last.key, last.shift, t)
               IN  /\ r.action = Unwrap(last.action)
                   /\ r.mapper.state = TheMapper.state
        /\ StalePendingKey =>
               /\ Carries(Unwrap(last.action), last.before.state[2])
               /\ TheMapper.state = Idle
               /\ (/\ last.key[1] = "Char"
                   /\ IsSome(accent_combinations(last.before.state[2],
                                                 Normalised(last.key, last.shift))))
                      => last.action =
                           Some(Replace(Unwrap(accent_combinations(
                               last.before.state[2], Normalised(last.key, last.shift)))))

\* a tilde entered at instant 0 met the key a 750 ms later and gave a-tilde
C37_Witness ==
    /\ StalePendingKey
    /\ last.before = [state |-> PendingAccent("Tilde"), last_accent_time |-> Some(0)]
    /\ last.at = 3
    /\ last.key = <<"Char", 97>> /\ ~last.shift
    /\ last.action = Some(Replace(227))

(***************************************************************************)
(* Properties of the running system, continued (SpecRun)                   *)
(***************************************************************************)
\* the callback ran for an event of the keyboard / for an event SendInput fed back
KeyCallback == last.op = "callback" /\ last.how = "key"
InjectedCallback == last.op = "callback" /\ last.how = "injected"

\* a further key event arrives
KeyArrives == \E h \in osHooks, e \in SampleEvents : KeyEvent(h, e)

\* C38: injection cannot loop.  A key event causes at most two character
\* injections, so at most four events are fed back; the callback injects nothing
\* for an event that was fed back, so each one handled shortens the queue by one;
\* and once key events stop arriving, the system reaches and keeps a state with no
\* events left to process.
C38_InjectionEnds ==
    /\ [](KeyCallback => /\ Len(last.chars) <= 2
                         /\ Len(inputQueue) <= last.queued + 2 * Len(last.chars)
                         /\ Len(inputQueue) <= last.queued + 4)
    /\ [](InjectedCallback => /\ last.chars = <<>>
                              /\ last.forwarded
                              /\ Len(inputQueue) = last.queued)
    /\ (<>[][~KeyArrives]_vars => <>[](inputQueue = <<>>))

\* the last of the four events that tilde-then-x fed back has been handled and
\* nothing is left
C38_Witness ==
    /\ InjectedCallback
    /\ last.event.msg = WM_KEYUP /\ last.event.scan = 120
    /\ last.event.vkCode = VK_PACKET
    /\ last.queued = 0
    /\ inputQueue = <<>>

====
